---- MODULE Spec2Model ----
(***************************************************************************)
(* Reverse-proxy load balancer (taurus-game-server-lb): the backend pool   *)
(* (serverpool.go), the Backend record, and the dispatcher lb with the     *)
(* retry protocol installed by createProxy (main.go).                      *)
(*                                                                         *)
(* Positions in the pool are 0-based as in the Go code; the host of the    *)
(* backend at position k is backends[k + 1].                               *)
(***************************************************************************)
EXTENDS Integers, Sequences, FiniteSets

(* ------------------------------ bounds -------------------------------- *)

\* largest pool built from SERVER_LIST
MaxPool == 3
\* room-creation requests are accepted while the cursor is below this value
MaxCursor == 4
\* length of the recorded history of round-robin selections
MaxPicks == 4
\* tasks that call GetNextPeer at the same time
NumCallers == 2
\* tasks that call IsAlive and SetAlive of one backend at the same time
NumThreads == 3

(* ------------------------- program constants -------------------------- *)

\* rooms per backend, GetPeer
ShardCapacity == 10000
\* lb: attempts > 3 ends the request
MaxAttempts == 3
\* ErrorHandler: retries < 3 retries the same proxy
MaxRetries == 3
\* what is written to the ResponseWriter: the two statuses lb writes with
\* http.Error, and the response of a backend the proxy copied to it
StatusServiceUnavailable == "503"
StatusNotFound == "404"
Forwarded == "forwarded"

\* a context key that holds no value
NoValue == -1
\* a nil *Backend
Nil == -1
\* the outcome of indexing s.backends out of range
Panic == -2

\* the request tasks; requests are served one after the other
Clients == {1}

VARIABLES
    backends,   \* ServerPool.backends: the hosts, in insertion order
    Alive,      \* Backend.Alive, by position
    current,    \* ServerPool.current
    reachable,  \* by position: whether the upstream accepts connections
                \* (the upstreams are all up or all down)
    task,       \* per request task: the request, its context, its position
    picks,      \* history: the positions GetNextPeer returned, from startup
                \* until the first backend is marked dead
    sticky,     \* history: <<roomId, result>> of the latest GetPeer call
    hist,       \* history of the pool-level runs: the selections made since
                \* the liveness flags last changed, and that change
    mux         \* Backend.mux of one backend and the tasks that use it

vars == <<backends, Alive, current, reachable, task, picks, sticky, hist, mux>>

(* ------------------------------ helpers ------------------------------- *)

\* Go's integer division truncates toward zero
GoDiv(a, b) == IF a >= 0 THEN a \div b ELSE -((-a) \div b)

\* len(s.backends)
NumBackends == Len(backends)

Positions == 0 .. (NumBackends - 1)

\* Backend.URL of the backend at position k ("http" + "://" + tok)
BackendURL(k) == <<"http", backends[k + 1]>>

\* the URL a proxy of the backend at position k was created with
ProxyURL(k, scheme) == <<scheme, backends[k + 1]>>

\* the room ids a path segment can carry: 0 (also what Atoi yields on a
\* failed parse), a negative number, the first and last room of shard 0 and
\* the first room of each later shard up to one past the largest pool
RoomIds ==
    {-ShardCapacity, 0, 1, ShardCapacity}
        \cup {k * ShardCapacity + 1 : k \in 1 .. (MaxPool + 1)}

\* the shapes of path lb tells apart
PathClasses == {"create", "roomAction", "roomConnection", "other"}

\* r.URL.Path as the segments that follow each "/" (strings.Split(path, "/")
\* without its empty first element): the word room, the word ws, another
\* word, or a decimal number, which may carry a minus sign
Room == [kind |-> "room", n |-> 0]
Ws == [kind |-> "ws", n |-> 0]
Word == [kind |-> "word", n |-> 0]
Num(n) == [kind |-> "int", n |-> n]

\* os.Getenv("API_PREFIX"), unset
apiPrefix == <<>>

\* the room-scoped shapes, routed by GetPeer
StickyClasses == {"roomAction", "roomConnection"}

\* the canonical host sequences of length n: hosts are compared for equality
\* only, so the first host is 1 and a new host is one more than the largest
RECURSIVE HostSeqs(_)
HostSeqs(n) ==
    IF n = 0 THEN {<<>>}
    ELSE LET Max(s) == IF s = <<>> THEN 0
                       ELSE CHOOSE m \in {s[j] : j \in 1 .. Len(s)} :
                                \A j \in 1 .. Len(s) : s[j] <= m
         IN  UNION {{Append(s, h) : h \in 1 .. (Max(s) + 1)} : s \in HostSeqs(n - 1)}

\* the requests: room creation, an unknown path, /room/<id> and /ws/<id>
\* for the ids of RoomIds, and room paths that follow other segments
\* (/x/room/1, /x/-10000/room/1, and the same with ws)
Paths ==
    {apiPrefix \o <<Room>>, <<Word>>}
        \cup {<<Room, Num(n)>> : n \in {m \in RoomIds : m >= 0}}
        \cup {<<Ws, Num(n)>> : n \in {m \in RoomIds : m >= 0}}
        \cup {<<Word, Room, Num(1)>>, <<Word, Ws, Num(1)>>}
        \cup {<<Word, Num(-ShardCapacity), Room, Num(1)>>,
              <<Word, Num(-ShardCapacity), Ws, Num(1)>>}

\* [0-9] at the start of a segment
StartsWithDigit(seg) == seg.kind = "int" /\ seg.n >= 0

\* roomAction.MatchString: `/room/[0-9]+(/.+)*` matches anywhere in the path
roomAction(path) ==
    \E j \in 1 .. (Len(path) - 1) :
        path[j] = Room /\ StartsWithDigit(path[j + 1])

\* roomConnection.MatchString: `/ws/[0-9]` matches anywhere in the path
roomConnection(path) ==
    \E j \in 1 .. (Len(path) - 1) :
        path[j] = Ws /\ StartsWithDigit(path[j + 1])

\* strconv.Atoi, whose error lb drops: 0 for a segment that is no number
Atoi(seg) == IF seg.kind = "int" THEN seg.n ELSE 0

\* the branch of lb a path takes
Classify(path) ==
    IF path = apiPrefix \o <<Room>> THEN "create"
    ELSE IF roomAction(path) THEN "roomAction"
    ELSE IF roomConnection(path) THEN "roomConnection"
    ELSE "other"

\* roomId, _ := strconv.Atoi(s[2]) on the room-scoped branches
PathRoomId(path) ==
    IF Classify(path) \in StickyClasses THEN Atoi(path[2]) ELSE 0

(* ------------------------- request context ---------------------------- *)

GetAttemptsFromContext_default(ctx) == 1

GetAttemptsFromContext(ctx) ==
    IF ctx.Attempts # NoValue THEN ctx.Attempts ELSE 1

GetRetryFromContext(ctx) ==
    IF ctx.Retry # NoValue THEN ctx.Retry ELSE 0

(* ----------------------------- ServerPool ----------------------------- *)

\* NextIndex on a cursor holding cur: <<the cursor after the atomic add,
\* the index returned>>; the index is taken from the value after the add
NextIndex_postIncrement(cur) == <<cur + 1, cur % NumBackends>>

NextIndex_noAdd(cur) == <<cur, cur % NumBackends>>

NextIndex_addTwo(cur) == <<cur + 2, (cur + 2) % NumBackends>>

NextIndex(cur) == <<cur + 1, (cur + 1) % NumBackends>>

\* Backend.IsAlive: the flag, read under the read lock
IsAlive_always(k) == TRUE

IsAlive_negated(k) == ~Alive[k]

IsAlive(k) == Alive[k]

\* the position MarkBackendStatus sets: the first whose URL string matches
MatchingPositions(u) == {k \in Positions : BackendURL(k) = u}

\* (without the break: every match is set)
MarkBackendStatus_all(u, alive) ==
    [k \in Positions |->
        IF k \in MatchingPositions(u) THEN alive ELSE Alive[k]]

MarkBackendStatus(u, alive) ==
    IF MatchingPositions(u) = {}
    THEN Alive
    ELSE LET first == CHOOSE k \in MatchingPositions(u) :
                          \A j \in MatchingPositions(u) : k <= j
         IN  [Alive EXCEPT ![first] = alive]

\* Backend.SetAlive of the backend at position k
SetAlive(k, alive) == [Alive EXCEPT ![k] = alive]

\* serverId := (roomId - 1) / 10000
ServerId_noOffset(roomId) == GoDiv(roomId, ShardCapacity)

ServerId(roomId) == GoDiv(roomId - 1, ShardCapacity)

\* GetPeer: a position, Nil, or Panic when s.backends[serverId] is out of range
GetPeer_skipDead(roomId) ==
    LET serverId == ServerId(roomId)
    IN  IF serverId <= NumBackends
        THEN IF serverId \in Positions
             THEN (IF Alive[serverId] THEN serverId ELSE Nil)
             ELSE Panic
        ELSE Nil

GetPeer(roomId) ==
    LET serverId == ServerId(roomId)
    IN  IF serverId <= NumBackends
        THEN IF serverId \in Positions THEN serverId ELSE Panic
        ELSE Nil

(* ------------------------------- state -------------------------------- *)

IdleTask ==
    [pc |-> "idle", path |-> <<>>, class |-> "other", roomId |-> 0,
     scheme |-> "http",
     ctx |-> [Attempts |-> NoValue, Retry |-> NoValue],
     frames |-> 0, peer |-> Nil, next |-> 0, i |-> 0,
     resp |-> <<>>, forwards |-> 0, served |-> FALSE]

\* the history at the start of a run of the whole program; a mutex nobody
\* holds
NoHist ==
    [run |-> "program", window |-> <<>>, revived |-> Nil, steady |-> {},
     cursor0 |-> 0]

NoMux == [readers |-> {}, writer |-> Nil, torn |-> FALSE, th |-> <<>>]

Init ==
    /\ backends \in UNION {HostSeqs(n) : n \in 1 .. MaxPool}
    /\ Alive = [k \in Positions |-> TRUE]
    /\ current = 0
    /\ reachable \in {[k \in Positions |-> up] : up \in BOOLEAN}
    /\ task = [c \in Clients |-> IdleTask]
    /\ picks = <<>>
    /\ sticky = <<>>
    /\ hist = NoHist
    /\ mux = NoMux

AllAlive == \A k \in Positions : Alive[k]

Record(p) ==
    IF hist.run = "program" /\ AllAlive /\ Len(picks) < MaxPicks
    THEN Append(picks, p)
    ELSE picks

(* ------------------------------ actions ------------------------------- *)

\* http.Server hands a new request to lb in a task of its own
Accept(c) ==
    /\ task[c].pc \in {"idle", "done", "panic"}
    /\ \E path \in Paths :
        /\ Classify(path) = "create" => current < MaxCursor
        /\ task' = [task EXCEPT ![c] =
                        [IdleTask EXCEPT !.pc = "lb", !.path = path,
                                         !.class = Classify(path),
                                         !.roomId = PathRoomId(path)]]
    /\ UNCHANGED <<backends, Alive, current, reachable, picks, sticky>>
    /\ UNCHANGED <<hist, mux>>

\* lb, from its entry to the call that selects or serves
LbEnter(c) ==
    LET t == task[c]
        attempts == GetAttemptsFromContext(t.ctx)
        peer == GetPeer(t.roomId)
    IN
    /\ t.pc = "lb"
    /\ task' = [task EXCEPT ![c] =
        IF attempts > MaxAttempts
        THEN [t EXCEPT !.resp = Append(@, StatusServiceUnavailable),
                       !.pc = "resume"]
        ELSE IF t.class = "create"
        THEN [t EXCEPT !.frames = @ + 1, !.pc = "NextIndex"]
        ELSE IF t.class = "other"
        THEN [t EXCEPT !.resp = Append(@, StatusNotFound), !.pc = "resume"]
        ELSE LET scheme == IF t.class = "roomAction" THEN "ws" ELSE "http"
             IN  IF peer = Panic
                 THEN [t EXCEPT !.scheme = scheme, !.pc = "panic"]
                 ELSE IF peer = Nil
                 THEN [t EXCEPT !.scheme = scheme,
                                !.resp = Append(@, StatusServiceUnavailable),
                                !.pc = "resume"]
                 ELSE [t EXCEPT !.scheme = scheme, !.peer = peer,
                                !.frames = @ + 1, !.pc = "forward"]]
    /\ sticky' = IF attempts <= MaxAttempts /\ t.class \in StickyClasses
                 THEN <<t.roomId, peer>>
                 ELSE sticky
    /\ UNCHANGED <<backends, Alive, current, reachable, picks>>
    /\ UNCHANGED <<hist, mux>>

\* GetNextPeer: next := s.NextIndex()
GetNextPeerStart(c) ==
    LET t == task[c] IN
    /\ t.pc = "NextIndex"
    /\ current' = NextIndex(current)[1]
    /\ task' = [task EXCEPT ![c] =
                   [t EXCEPT !.next = NextIndex(current)[2],
                             !.i = NextIndex(current)[2], !.pc = "scan"]]
    /\ UNCHANGED <<backends, Alive, reachable, picks, sticky>>
    /\ UNCHANGED <<hist, mux>>

\* GetNextPeer: one iteration of the loop, reading IsAlive of one backend;
\* a nil result returns into lb, which answers 503 and returns
GetNextPeerScan(c) ==
    LET t == task[c]
        l == NumBackends + t.next
        idx == t.i % NumBackends
    IN
    /\ t.pc = "scan"
    /\ IF IsAlive(idx)
       THEN /\ task' = [task EXCEPT ![c] =
                           [t EXCEPT !.peer = idx, !.next = 0, !.i = 0,
                                     !.pc = IF t.i # t.next THEN "store"
                                                            ELSE "forward"]]
            /\ picks' = Record(idx)
       ELSE IF t.i + 1 < l
       THEN /\ task' = [task EXCEPT ![c] = [t EXCEPT !.i = @ + 1]]
            /\ UNCHANGED picks
       ELSE /\ task' = [task EXCEPT ![c] =
                           [t EXCEPT !.peer = Nil, !.next = 0, !.i = 0,
                                     !.resp = Append(@, StatusServiceUnavailable),
                                     !.frames = @ - 1, !.pc = "resume"]]
            /\ picks' = Record(Nil)
    /\ UNCHANGED <<backends, Alive, current, reachable, sticky>>
    /\ UNCHANGED <<hist, mux>>

\* GetNextPeer: atomic.StoreUint64(&s.current, uint64(idx))
GetNextPeerStore_skip(c) ==
    LET t == task[c] IN
    /\ t.pc = "store"
    /\ task' = [task EXCEPT ![c] = [t EXCEPT !.pc = "forward"]]
    /\ UNCHANGED <<backends, Alive, current, reachable, picks, sticky>>
    /\ UNCHANGED <<hist, mux>>

GetNextPeerStore(c) ==
    LET t == task[c] IN
    /\ t.pc = "store"
    /\ current' = t.peer
    /\ task' = [task EXCEPT ![c] = [t EXCEPT !.pc = "forward"]]
    /\ UNCHANGED <<backends, Alive, reachable, picks, sticky>>
    /\ UNCHANGED <<hist, mux>>

\* ReverseProxy.ServeHTTP of a proxy of the selected backend: one round
\* trip to the upstream, which a reachable upstream may answer
RoundTrip(c) ==
    LET t == task[c] IN
    /\ t.pc = "forward"
    /\ \E ok \in BOOLEAN :
        /\ ok => reachable[t.peer]
        /\ task' = [task EXCEPT ![c] =
            IF ok
            THEN [t EXCEPT !.forwards = @ + 1, !.served = TRUE,
                           !.resp = Append(@, Forwarded),
                           !.pc = "resume"]
            ELSE [t EXCEPT !.forwards = @ + 1, !.pc = "error"]]
    /\ UNCHANGED <<backends, Alive, current, reachable, picks, sticky>>
    /\ UNCHANGED <<hist, mux>>

\* Backend.ServeHTTP: the forward through b.ReverseProxy
ServeHTTP(c) == task[c].scheme = "http" /\ RoundTrip(c)

\* Backend.ServeWS: the forward through b.WsReverseProxy
ServeWS(c) == task[c].scheme = "ws" /\ RoundTrip(c)

\* proxy.ErrorHandler of the proxy createProxy(u) built
ErrorHandler(c) ==
    LET t == task[c]
        retries == GetRetryFromContext(t.ctx)
        attempts == GetAttemptsFromContext(t.ctx)
    IN
    /\ t.pc = "error"
    /\ IF retries < MaxRetries
       THEN /\ task' = [task EXCEPT ![c] =
                           [t EXCEPT !.ctx.Retry = retries + 1,
                                     !.pc = "forward"]]
            /\ UNCHANGED Alive
       ELSE /\ Alive' = MarkBackendStatus(ProxyURL(t.peer, t.scheme), FALSE)
            /\ task' = [task EXCEPT ![c] =
                           [t EXCEPT !.ctx.Attempts = attempts + 1,
                                     !.pc = "lb"]]
    /\ UNCHANGED <<backends, current, reachable, picks, sticky>>
    /\ UNCHANGED <<hist, mux>>

\* the serve call of the innermost lb frame has returned: the frame runs
\* to its end (the room-creation branch returns, the room-scoped branch
\* falls through to the 503 at the end of lb)
LbResume(c) ==
    LET t == task[c] IN
    /\ t.pc = "resume"
    /\ task' = [task EXCEPT ![c] =
        IF t.frames = 0
        THEN [t EXCEPT !.pc = "done"]
        ELSE IF t.class = "create"
        THEN [t EXCEPT !.frames = @ - 1]
        ELSE [t EXCEPT !.frames = @ - 1,
                       !.resp = Append(@, StatusServiceUnavailable)]]
    /\ UNCHANGED <<backends, Alive, current, reachable, picks, sticky>>
    /\ UNCHANGED <<hist, mux>>

\* ServerPool.HealthCheck: one probe of one backend. main leaves
\* "go healthCheck()" commented out, so no specification below takes it.
isBackendAlive(k) == reachable[k]

HealthCheck ==
    /\ \E k \in Positions : Alive' = [Alive EXCEPT ![k] = isBackendAlive(k)]
    /\ UNCHANGED <<backends, current, reachable, task, picks, sticky>>
    /\ UNCHANGED <<hist, mux>>

Step(c) ==
    \/ Accept(c)
    \/ LbEnter(c)
    \/ GetNextPeerStart(c)
    \/ GetNextPeerScan(c)
    \/ GetNextPeerStore(c)
    \/ ServeHTTP(c)
    \/ ServeWS(c)
    \/ ErrorHandler(c)
    \/ LbResume(c)

Next == \E c \in Clients : Step(c)

Spec == Init /\ [][Next]_vars

\* every request task that can take a step eventually takes one
FairSpec == Spec /\ \A c \in Clients : WF_vars(Step(c))

(* ------------------- the pool, called on its own ---------------------- *)

\* One task calls GetNextPeer again and again while the liveness flags are
\* written: between the calls through MarkBackendStatus (run "sequential"),
\* or at any time through SetAlive (run "concurrent").
PoolInit(run) ==
    /\ backends \in UNION {HostSeqs(n) : n \in 1 .. MaxPool}
    /\ Alive = [k \in Positions |-> TRUE]
    /\ current = 0
    /\ reachable = [k \in Positions |-> TRUE]
    /\ task = [c \in Clients |-> IdleTask]
    /\ picks = <<>>
    /\ sticky = <<>>
    /\ hist = [NoHist EXCEPT !.run = run]
    /\ mux = NoMux

\* a task at the call serverPool.GetNextPeer() of lb
CallingTask ==
    [IdleTask EXCEPT !.pc = "NextIndex", !.path = apiPrefix \o <<Room>>,
                     !.class = "create", !.frames = 1]

\* the addresses MarkBackendStatus is called with: the http and the ws
\* address of a host, also of a host that is not in the pool
URLs ==
    {<<"http", h>> : h \in 1 .. (MaxPool + 1)} \cup {<<"ws", 1>>}

\* the history, when a write leaves the flags as al. Sequential runs: the
\* selections since the last change start afresh. Otherwise: a backend
\* written dead has not stayed alive through the call in flight.
Touch(al) ==
    IF al = Alive
    THEN hist
    ELSE IF hist.run = "sequential"
    THEN [hist EXCEPT
            !.window = <<>>,
            !.revived = IF \E k \in Positions : al[k] /\ ~Alive[k]
                        THEN CHOOSE k \in Positions : al[k] /\ ~Alive[k]
                        ELSE Nil]
    ELSE [hist EXCEPT !.steady = @ \cap {k \in Positions : al[k]}]

PoolCall(c) ==
    /\ task[c].pc = "idle"
    /\ current < MaxCursor
    /\ task' = [task EXCEPT ![c] = CallingTask]
    /\ hist' = [hist EXCEPT
                  !.steady = IF hist.run = "sequential" THEN {}
                             ELSE {k \in Positions : Alive[k]}]
    /\ UNCHANGED <<backends, Alive, current, reachable, picks, sticky, mux>>

\* GetNextPeer has returned task[c].peer
PoolReturn(c) ==
    /\ task[c].pc \in {"forward", "resume"}
    /\ task' = [task EXCEPT ![c] = IdleTask]
    /\ hist' = [hist EXCEPT
                  !.window = IF hist.run = "sequential"
                                  /\ Len(@) < NumBackends
                             THEN Append(@, task[c].peer)
                             ELSE @,
                  !.steady = {}]
    /\ UNCHANGED <<backends, Alive, current, reachable, picks, sticky, mux>>

\* MarkBackendStatus(u, alive), called while no GetNextPeer call runs
PoolMark(u, alive) ==
    /\ \A c \in DOMAIN task : task[c].pc = "idle"
    /\ Alive' = MarkBackendStatus(u, alive)
    /\ hist' = Touch(MarkBackendStatus(u, alive))
    /\ UNCHANGED <<backends, current, reachable, task, picks, sticky, mux>>

\* SetAlive(alive) of the backend at position k, at any time
PoolSetAlive(k, alive) ==
    /\ Alive' = SetAlive(k, alive)
    /\ hist' = Touch(SetAlive(k, alive))
    /\ UNCHANGED <<backends, current, reachable, task, picks, sticky, mux>>

\* one step of a GetNextPeer call
PoolStep(c) ==
    \/ PoolCall(c)
    \/ GetNextPeerStart(c)
    \/ GetNextPeerScan(c)
    \/ GetNextPeerStore(c)
    \/ PoolReturn(c)

PoolSeqNext ==
    \/ \E c \in Clients : PoolStep(c)
    \/ \E u \in URLs, alive \in BOOLEAN : PoolMark(u, alive)

PoolSeqSpec == PoolInit("sequential") /\ [][PoolSeqNext]_vars

PoolNext ==
    \/ \E c \in Clients : PoolStep(c)
    \/ \E k \in Positions, alive \in BOOLEAN : PoolSetAlive(k, alive)

PoolSpec == PoolInit("concurrent") /\ [][PoolNext]_vars

(* ------------------ GetNextPeer, called concurrently ------------------ *)

Callers == 1 .. NumCallers

\* The flags are fixed at any setting and the cursor at any value; each
\* caller calls GetNextPeer once.
RaceInit ==
    /\ backends \in {[k \in 1 .. n |-> k] : n \in 1 .. MaxPool}
    /\ Alive \in [Positions -> BOOLEAN]
    /\ current \in 0 .. MaxCursor
    /\ reachable = [k \in Positions |-> TRUE]
    /\ task = [c \in Callers |-> IdleTask]
    /\ picks = <<>>
    /\ sticky = <<>>
    /\ hist = [NoHist EXCEPT !.run = "concurrent", !.cursor0 = current]
    /\ mux = NoMux

RaceCall(c) ==
    /\ task[c].pc = "idle"
    /\ task' = [task EXCEPT ![c] = CallingTask]
    /\ UNCHANGED <<backends, Alive, current, reachable, picks, sticky>>
    /\ UNCHANGED <<hist, mux>>

RaceNext ==
    \E c \in Callers :
        \/ RaceCall(c)
        \/ GetNextPeerStart(c)
        \/ GetNextPeerScan(c)
        \/ GetNextPeerStore(c)

RaceSpec == RaceInit /\ [][RaceNext]_vars

(* ---------------------- the mutex of a Backend ------------------------ *)

Threads == 1 .. NumThreads

\* the backend whose flag the tasks read and write
LockedBackend == 0

\* sync.RWMutex: RLock waits for the writer to leave, Lock for the
\* writer and every reader
CanRLock == mux.writer = Nil

CanLock_ignoreReaders == mux.writer = Nil

CanLock == mux.writer = Nil /\ mux.readers = {}

IdleThread == [pc |-> "idle", arg |-> TRUE, ret |-> "none"]

LockInit ==
    /\ backends = <<1>>
    /\ Alive = [k \in Positions |-> TRUE]
    /\ current = 0
    /\ reachable = [k \in Positions |-> TRUE]
    /\ task = [c \in Clients |-> IdleTask]
    /\ picks = <<>>
    /\ sticky = <<>>
    /\ hist = [NoHist EXCEPT !.run = "concurrent"]
    /\ mux = [NoMux EXCEPT !.th = [t \in Threads |-> IdleThread]]

\* IsAlive: b.mux.RLock()
IsAliveRLock(t) ==
    /\ mux.th[t].pc = "idle"
    /\ CanRLock
    /\ mux' = [mux EXCEPT !.readers = @ \cup {t}, !.th[t].pc = "read"]
    /\ UNCHANGED <<backends, Alive, current, reachable, task, picks, sticky,
                   hist>>

\* IsAlive: alive = b.Alive; a read while a write is under way gets
\* whatever the memory holds
IsAliveRead(t) ==
    /\ mux.th[t].pc = "read"
    /\ mux' = [mux EXCEPT
                 !.th[t].ret = IF mux.torn THEN "torn"
                               ELSE IF Alive[LockedBackend] THEN "alive"
                               ELSE "dead",
                 !.th[t].pc = "RUnlock"]
    /\ UNCHANGED <<backends, Alive, current, reachable, task, picks, sticky,
                   hist>>

\* IsAlive: b.mux.RUnlock(); return alive, which the caller keeps
IsAliveRUnlock(t) ==
    /\ mux.th[t].pc = "RUnlock"
    /\ mux' = [mux EXCEPT !.readers = @ \ {t}, !.th[t].pc = "idle"]
    /\ UNCHANGED <<backends, Alive, current, reachable, task, picks, sticky,
                   hist>>

\* SetAlive(alive): b.mux.Lock()
SetAliveLock(t, alive) ==
    /\ mux.th[t].pc = "idle"
    /\ CanLock
    /\ mux' = [mux EXCEPT !.writer = t, !.th[t].arg = alive,
                          !.th[t].pc = "write"]
    /\ UNCHANGED <<backends, Alive, current, reachable, task, picks, sticky,
                   hist>>

\* SetAlive: b.Alive = alive, the store begins
SetAliveBegin(t) ==
    /\ mux.th[t].pc = "write"
    /\ mux' = [mux EXCEPT !.torn = TRUE, !.th[t].pc = "written"]
    /\ UNCHANGED <<backends, Alive, current, reachable, task, picks, sticky,
                   hist>>

\* SetAlive: b.Alive = alive, the store is complete
SetAliveEnd(t) ==
    /\ mux.th[t].pc = "written"
    /\ Alive' = SetAlive(LockedBackend, mux.th[t].arg)
    /\ mux' = [mux EXCEPT !.torn = FALSE, !.th[t].pc = "Unlock"]
    /\ UNCHANGED <<backends, current, reachable, task, picks, sticky, hist>>

\* SetAlive: b.mux.Unlock()
SetAliveUnlock(t) ==
    /\ mux.th[t].pc = "Unlock"
    /\ mux' = [mux EXCEPT !.writer = Nil, !.th[t].arg = TRUE,
                          !.th[t].pc = "idle"]
    /\ UNCHANGED <<backends, Alive, current, reachable, task, picks, sticky,
                   hist>>

LockNext ==
    \E t \in Threads :
        \/ IsAliveRLock(t)
        \/ IsAliveRead(t)
        \/ IsAliveRUnlock(t)
        \/ \E alive \in BOOLEAN : SetAliveLock(t, alive)
        \/ SetAliveBegin(t)
        \/ SetAliveEnd(t)
        \/ SetAliveUnlock(t)

LockSpec == LockInit /\ [][LockNext]_vars

(* ------------------------------ claims -------------------------------- *)

\* the attempts lb reads for the request of task c
Attempts(c) == GetAttemptsFromContext(task[c].ctx)

AllDead == \A k \in Positions : ~Alive[k]

\* C1: a room-scoped request whose index (roomId - 1) div 10000 is greater
\* than or equal to the pool size gets none from GetPeer: it never indexes
\* the backend sequence, is never forwarded and is answered with one 503.
StickyOutOfRangeIsNone ==
    \A c \in Clients :
        LET t == task[c] IN
        (/\ t.class \in StickyClasses
         /\ ServerId(t.roomId) >= NumBackends
         /\ t.pc \notin {"idle", "lb"})
            => /\ t.pc # "panic"
               /\ t.forwards = 0
               /\ t.pc = "done" => t.resp = <<StatusServiceUnavailable>>

\* C2: once a forward has succeeded nothing more is written for the
\* request: the forwarded response is the last entry of what lb wrote.
ForwardSuccessIsTerminal ==
    \A c \in Clients :
        \A j \in 1 .. Len(task[c].resp) :
            task[c].resp[j] = Forwarded => j = Len(task[c].resp)

\* C3: when the ErrorHandler has given up on a backend (a forward failed
\* with retries at 3) and re-enters lb, the backend it gave up on is dead,
\* whichever of its two proxies failed.
ExhaustedBackendMarkedDead ==
    \A c \in Clients :
        (task[c].pc = "lb" /\ task[c].ctx.Attempts # NoValue)
            => ~Alive[task[c].peer]

\* a measure of the steps a request in flight has left: the attempts and
\* retries it may still use, then its position within the current attempt
Rank(t) ==
    LET a == GetAttemptsFromContext(t.ctx)
        r == GetRetryFromContext(t.ctx)
        block == NumBackends + 8
        base == 10 + (((MaxAttempts + 1 - a) * (MaxRetries + 1))
                        + (MaxRetries - r)) * block
    IN  CASE t.pc \in {"idle", "done", "panic"} -> 0
          [] t.pc = "resume" -> 1 + t.frames
          [] t.pc = "lb" -> base + NumBackends + 7
          [] t.pc = "NextIndex" -> base + NumBackends + 6
          [] t.pc = "scan" -> base + 5 + (NumBackends - (t.i - t.next))
          [] t.pc = "store" -> base + 4
          [] t.pc = "forward" -> base + 3
          [] t.pc = "error" -> base + 2

FailingRequestBounded ==
    \A c \in Clients :
        LET t == task[c] IN
        /\ Rank(t) >= 0
        /\ ~t.served =>
            /\ t.forwards <= MaxAttempts * MaxRetries
            /\ (t.pc = "done" /\ t.forwards > 0) =>
                /\ t.resp # <<>>
                /\ \A j \in 1 .. Len(t.resp) :
                       t.resp[j] = StatusServiceUnavailable

RequestStepsDescend ==
    \A c \in Clients :
        (task[c].pc \notin {"idle", "done", "panic"} /\ task'[c] # task[c])
            => Rank(task'[c]) < Rank(task[c])

\* C4: a request none of whose forwards succeeds is forwarded at most
\* 3 x 3 = 9 times and, once it was forwarded at all, ends with nothing but
\* 503 written; every request ends: Rank is a natural number that every
\* step of a request in flight makes smaller.
RetryWorkBounded == [](FailingRequestBounded) /\ [][RequestStepsDescend]_vars

RetryWorkBoundedWitness ==
    \E c \in Clients :
        /\ task[c].pc = "done"
        /\ ~task[c].served
        /\ task[c].forwards = 6
        /\ task[c].resp[1] = StatusServiceUnavailable

\* C5 as stated: with the pool [A, B, C] (three hosts), all alive, the k-th round-robin
\* selection since startup returns position (k - 1) mod 3: A, B, C, A, ...
FirstPickIsFirstInserted ==
    backends = <<1, 2, 3>> =>
        \A j \in 1 .. Len(picks) : picks[j] = (j - 1) % 3

\* C5 as amended: with the pool [A, B, C] (three hosts), all alive, the k-th round-robin
\* selection since startup returns position k mod 3: B, C, A, B, ...
FirstPickIsSecondInserted ==
    backends = <<1, 2, 3>> =>
        \A j \in 1 .. Len(picks) : picks[j] = j % 3

FirstPickIsSecondInsertedWitness ==
    backends = <<1, 2, 3>> /\ Len(picks) = 4 /\ picks[1] = 1 /\ picks[4] = 1

\* C6: while every backend is alive, a selection returns the position that
\* cyclically follows the one the selection before it returned, and any N
\* consecutive selections return each of the N positions exactly once.
RoundRobinCycle ==
    /\ \A j \in 1 .. (Len(picks) - 1) :
           picks[j + 1] = (picks[j] + 1) % NumBackends
    /\ \A j \in 1 .. Len(picks) :
           j + NumBackends - 1 <= Len(picks) =>
               /\ {picks[m] : m \in j .. (j + NumBackends - 1)} = Positions
               /\ \A m, n \in j .. (j + NumBackends - 1) :
                      picks[m] = picks[n] => m = n

RoundRobinCycleWitness ==
    /\ NumBackends >= 2
    /\ Len(picks) >= NumBackends + 1
    /\ picks[NumBackends + 1] = picks[1]

\* the scan step that selects a backend read its flag as true
ScanReturnsAlive ==
    \A c \in Clients :
        (task[c].pc = "scan" /\ task'[c].pc \in {"store", "forward"})
            => /\ task'[c].peer \in Positions
               /\ Alive[task'[c].peer]

\* a scan step over a pool of dead backends goes on or returns nil
ScanOfDeadPoolReturnsNone ==
    \A c \in Clients :
        (task[c].pc = "scan" /\ AllDead)
            => /\ task'[c].pc \in {"scan", "resume"}
               /\ task'[c].pc = "resume" => task'[c].peer = Nil

\* with no backend alive a room-creation request not yet forwarded is not
\* forwarded, and it ends with one 503
NoForwardWithoutAlive ==
    \A c \in Clients :
        LET t == task[c] IN
        (t.class = "create" /\ AllDead /\ t.forwards = 0)
            => /\ t.pc # "forward"
               /\ t.pc = "done" => t.resp = <<StatusServiceUnavailable>>

\* C7: a round-robin selection returns only a backend whose flag was true
\* when the scan read it; with every backend dead the scan returns none;
\* a room-creation request that is never forwarded because no backend is
\* alive ends with exactly one 503.
NeverPicksDead ==
    /\ [][ScanReturnsAlive]_vars
    /\ [][ScanOfDeadPoolReturnsNone]_vars
    /\ [](NoForwardWithoutAlive)

NeverPicksDeadWitness ==
    \E c \in Clients :
        /\ task[c].class = "create"
        /\ task[c].pc = "store"
        /\ \E k \in Positions : ~Alive[k]
        /\ Alive[task[c].peer]

\* C8: the prober runs for the whole life of the serving process, so a
\* backend that is dead and reachable is eventually alive again.
ProberRevivesReachable ==
    \A k \in 0 .. (MaxPool - 1) :
        (k \in Positions /\ ~Alive[k] /\ reachable[k])
            ~> (k \in Positions /\ Alive[k])

\* the step of lb that calls GetPeer
StickyCall(c) ==
    /\ task[c].pc = "lb"
    /\ task[c].class \in StickyClasses
    /\ Attempts(c) <= MaxAttempts
    /\ task'[c] # task[c]

\* C9: a GetPeer call for the room id of the GetPeer call before it returns
\* what that call returned, whatever happened to the flags and the cursor
\* in between and even when the owner is dead, and the step that makes the
\* call changes neither the cursor nor a flag.
StickyPeerStable ==
    [][\A c \in Clients :
          StickyCall(c) =>
              /\ sticky' = <<task[c].roomId, GetPeer(task[c].roomId)>>
              /\ (sticky # <<>> /\ sticky[1] = task[c].roomId)
                     => sticky'[2] = sticky[2]
              /\ current' = current
              /\ Alive' = Alive]_vars

StickyPeerStableWitness ==
    \E c \in Clients :
        /\ task[c].pc = "forward"
        /\ task[c].class \in StickyClasses
        /\ Attempts(c) >= 2
        /\ ~Alive[task[c].peer]
        /\ current > 0
        /\ sticky = <<task[c].roomId, task[c].peer>>

\* C10: GetPeer returns the backend at position (roomId - 1) div 10000 for
\* every roomId >= 1 whose index is a valid position, and with a pool of
\* three backends roomId 30001 (index 3) yields none and a 503.
StickyPeerByShard ==
    \A c \in Clients :
        LET t == task[c] IN
        (t.class \in StickyClasses /\ t.roomId >= 1 /\ t.pc \notin {"idle", "lb"})
            => /\ (t.roomId - 1) \div ShardCapacity \in Positions
                   => /\ t.peer = (t.roomId - 1) \div ShardCapacity
                      /\ t.pc # "panic"
               /\ (NumBackends = 3 /\ t.roomId = 3 * ShardCapacity + 1)
                   => /\ t.pc # "panic"
                      /\ t.forwards = 0
                      /\ t.pc = "done"
                             => t.resp = <<StatusServiceUnavailable>>

\* the shapes of path the dispatcher recognizes: {prefix}/room exactly,
\* /room/<id> with anything after it, /ws/<id>
Recognized(path) ==
    \/ path = apiPrefix \o <<Room>>
    \/ Len(path) >= 2 /\ path[1] = Room /\ StartsWithDigit(path[2])
    \/ Len(path) = 2 /\ path[1] = Ws /\ StartsWithDigit(path[2])

\* C11: a request whose path is none of the recognized shapes is answered
\* with one 404 and is never forwarded or retried, also when /room/<digits>
\* or /ws/<digit> occurs in it after other segments.
UnrecognizedPathIs404 ==
    \A c \in Clients :
        LET t == task[c] IN
        (t.pc \notin {"idle", "lb"} /\ ~Recognized(t.path))
            => /\ t.pc \notin {"forward", "error", "panic", "NextIndex",
                                "scan", "store"}
               /\ t.forwards = 0
               /\ t.pc = "done" => t.resp = <<StatusNotFound>>

\* C14: when lb is re-entered after the retries of a backend are used up,
\* the request carries a retries counter of zero, so the backend of the
\* next attempt is retried three times as well.
RetriesResetOnReentry ==
    \A c \in Clients :
        (task[c].pc = "lb" /\ task[c].ctx.Attempts # NoValue)
            => GetRetryFromContext(task[c].ctx) = 0

\* C19: a request gets exactly one response: at most one status is ever
\* written for it, and exactly one when it has ended.
ExactlyOneResponse ==
    \A c \in Clients :
        /\ Len(task[c].resp) <= 1
        /\ task[c].pc = "done" => Len(task[c].resp) = 1

\* the first alive position after position p, in the cyclic insertion order
NextAliveAfter(p) ==
    LET D == {d \in 1 .. NumBackends : Alive[(p + d) % NumBackends]}
    IN  IF D = {} THEN Nil
        ELSE (p + (CHOOSE d \in D : \A e \in D : d <= e)) % NumBackends

\* C12: after a dead backend is marked alive again (MarkBackendStatus,
\* which calls SetAlive) and the flags then stay as they are, the backend is
\* returned by one of the next N sequential selections, N the pool size.
RevivedIsSelected ==
    (hist.revived # Nil /\ Len(hist.window) = NumBackends)
        => \E j \in 1 .. Len(hist.window) : hist.window[j] = hist.revived

RevivedIsSelectedWitness ==
    /\ NumBackends >= 3
    /\ hist.revived # Nil
    /\ Len(hist.window) = NumBackends
    /\ hist.window[NumBackends] = hist.revived

\* the tasks inside IsAlive, and inside SetAlive, of the backend
ReadersInside == {t \in DOMAIN mux.th : mux.th[t].pc \in {"read", "RUnlock"}}

WritersInside ==
    {t \in DOMAIN mux.th : mux.th[t].pc \in {"write", "written", "Unlock"}}

\* C13: no task is inside IsAlive of a backend while another is inside
\* SetAlive of it, at most one task is inside SetAlive, and every read
\* returns a value that the initial or a completed write produced.
FlagExclusion ==
    /\ WritersInside # {} => ReadersInside = {}
    /\ Cardinality(WritersInside) <= 1
    /\ \A t \in DOMAIN mux.th : mux.th[t].ret # "torn"

FlagExclusionWitness ==
    /\ Cardinality(ReadersInside) >= 2
    /\ \E t \in ReadersInside : mux.th[t].ret = "dead"

\* the result of one GetNextPeer call that runs alone from cursor cur:
\* <<the cursor it leaves, the position it returns>>
SeqGetNextPeer(cur) ==
    LET next == NextIndex(cur)[2]
        D == {d \in 0 .. (NumBackends - 1) : Alive[(next + d) % NumBackends]}
    IN  IF D = {} THEN <<NextIndex(cur)[1], Nil>>
        ELSE LET d == CHOOSE d \in D : \A e \in D : d <= e
                 idx == (next + d) % NumBackends
             IN  <<IF d # 0 THEN idx ELSE NextIndex(cur)[1], idx>>

RECURSIVE SeqPicks(_, _)
SeqPicks(cur, k) ==
    IF k = 0 THEN <<>>
    ELSE <<SeqGetNextPeer(cur)[2]>> \o SeqPicks(SeqGetNextPeer(cur)[1], k - 1)

\* C15: with the flags fixed, the backends that concurrent GetNextPeer
\* calls return are, as a multiset, the backends the same number of calls
\* return when they run one after the other from the same cursor.
ConcurrentPicksAreSequential ==
    (\A c \in DOMAIN task : task[c].pc \in {"forward", "resume"})
        => LET k == Cardinality(DOMAIN task)
               seq == SeqPicks(hist.cursor0, k)
           IN  \A p \in Positions \cup {Nil} :
                   Cardinality({c \in DOMAIN task : task[c].peer = p})
                       = Cardinality({j \in 1 .. k : seq[j] = p})

\* C16: no step makes the cursor smaller than it was.
CursorMonotonic == [][current' >= current]_vars

\* C17: when GetNextPeer returns the backend at position p, the cursor is
\* congruent to p modulo the pool size, and with the flags fixed every
\* selection returns the first alive backend after the one before it, in
\* cyclic insertion order.
CursorFollowsPick ==
    /\ \A c \in DOMAIN task :
        task[c].pc = "forward" => current % NumBackends = task[c].peer
    /\ \A j \in 1 .. (Len(hist.window) - 1) :
        hist.window[j + 1] = IF hist.window[j] = Nil THEN Nil
                             ELSE NextAliveAfter(hist.window[j])

CursorFollowsPickWitness ==
    /\ NumBackends = 3
    /\ ~Alive[1]
    /\ hist.window = <<2, 0, 2>>

\* C18: MarkBackendStatus(u, alive) sets the flag of the first backend
\* whose address equals u and changes nothing else: the other flags, the
\* cursor and the backend sequence stay, and without a match nothing changes.
MarkStatusFrame ==
    [][\A u \in URLs, alive \in BOOLEAN :
        PoolMark(u, alive) =>
            LET M == {k \in Positions : <<"http", backends[k + 1]>> = u}
            IN  /\ backends' = backends
                /\ current' = current
                /\ M = {} => Alive' = Alive
                /\ M # {} =>
                    LET first == CHOOSE k \in M : \A j \in M : k <= j
                    IN  /\ Alive'[first] = alive
                        /\ \A k \in Positions \ {first} :
                               Alive'[k] = Alive[k]]_vars

MarkStatusFrameWitness ==
    /\ hist.run = "sequential"
    /\ \E k \in Positions :
        /\ ~Alive[k]
        /\ \E j \in Positions : j > k /\ backends[j + 1] = backends[k + 1]
                                      /\ Alive[j]

\* C20: while the flags are written during a GetNextPeer call, the scan
\* reads each position at most once and at most N positions in all, goes
\* on only past a backend it read as dead, and returns nil only after it
\* read the last of the N positions as dead, never when a backend stayed
\* alive through the whole call.
ScanUnderWrites ==
    /\ [](\A c \in DOMAIN task :
            task[c].pc = "scan" =>
                /\ task[c].next \in Positions
                /\ task[c].next <= task[c].i
                /\ task[c].i < task[c].next + NumBackends)
    /\ [][\A c \in DOMAIN task :
            task[c].pc = "scan" =>
                /\ task'[c].pc = "scan" /\ task'[c] # task[c] =>
                    /\ task'[c].i = task[c].i + 1
                    /\ ~Alive[task[c].i % NumBackends]
                /\ task'[c].pc = "resume" =>
                    /\ task[c].i = task[c].next + NumBackends - 1
                    /\ ~Alive[task[c].i % NumBackends]
                    /\ hist.steady = {}
                /\ task'[c].pc \in {"store", "forward"} =>
                    Alive[task'[c].peer]]_vars

ScanUnderWritesWitness ==
    /\ hist.run = "concurrent"
    /\ \E c \in DOMAIN task : task[c].pc = "resume"
    /\ \E k \in Positions : Alive[k]

====
